---------------------------- MODULE Spec2Model ----------------------------
(***************************************************************************)
(* State machine of DiagramService (the graph store of the entity-         *)
(* ownership diagram editor): the node and edge lists, the selection, the  *)
(* highlighted path, the sandbox transaction, the schema validation of     *)
(* loaded payloads, the flat-list transformation and the propagation of    *)
(* effective ownership.                                                    *)
(*                                                                         *)
(* Encoding of JavaScript values.  Every node and edge record carries all  *)
(* of its fields; an optional key that is not present (or is undefined)    *)
(* holds Absent (strings, booleans) or NoNum (numbers).  Booleans are the  *)
(* strings "true" and "false".  A null selection is Null.  A payload value *)
(* of the wrong JSON type is WrongType (string and boolean fields) or      *)
(* BadNum (number fields).  Percentages are kept in units of 1/Scale of a  *)
(* percent so that the halving done by a 50% stake stays exact, as it is   *)
(* in IEEE doubles for the stakes used here.  A key that is present and    *)
(* holds undefined is Undefined or UndefNum: it reads like an absent key,  *)
(* and JSON.stringify leaves it out.                                       *)
(***************************************************************************)
EXTENDS Integers, Sequences, FiniteSets, TLC

VARIABLES
    nodes,            \* DiagramService.nodes
    edges,            \* DiagramService.edges
    selectedNodeId,   \* DiagramService.selectedNodeId
    highlightedPath,  \* DiagramService.highlightedPath
    sandboxMode,      \* DiagramService.sandboxMode
    originalState,    \* DiagramService.originalState
    activeFilters,    \* DiagramService.activeFilters
    lastOp,           \* history: the last operation called and its argument
    prev,             \* history: the store as it was before that operation
    txn,              \* history: the graph at the last Live -> Sandboxed step
    steps             \* history: number of operations called so far

vars == <<nodes, edges, selectedNodeId, highlightedPath, sandboxMode,
          originalState, activeFilters, lastOp, prev, txn, steps>>

-----------------------------------------------------------------------------
(* Bounds of the model *)

\* longest node list addNode may build, and longest list of a load payload
MaxNodes == 3

\* number of operations called on the store in one run
MaxSteps == 5

\* longest flat entity list given to loadFlatEntityList on its own
MaxFlat == 3

\* longest flat entity list that is loaded a second time as stored
MaxReload == 2

\* most nodes of a graph loaded to have its paths traced
MaxTrace == 3

\* most entities of a list loaded to be filtered, and most setFilter calls
MaxFiltered == 3
MaxFilterSets == 2

\* most operations of a session that exports and loads the export again
MaxRoundTrip == 3
MaxTxn == 4
MaxShape == 3

-----------------------------------------------------------------------------
(* Values *)

Absent == "<absent>"
Null == "<null>"
WrongType == "<wrong-type>"
Undefined == "<undefined>"
NoNum == 0 - 1
BadNum == 0 - 2
UndefNum == 0 - 3

\* node identifiers the calls are made with ("G3" appears in payloads only)
IDs == {"G1", "G2"}

Dim200 == [width |-> 200, height |-> 90]
Dim220 == [width |-> 220, height |-> 100]
NoDim == [width |-> NoNum, height |-> NoNum]

NoSnapshot == [present |-> FALSE, nodes |-> <<>>, edges |-> <<>>]

\* truthiness of an optional string: if (ent.parentId), n.label || n.id
Truthy(v) == v \notin {Absent, Undefined, Null, ""}

Range(s) == {s[i] : i \in DOMAIN s}

\* Array.prototype.map
Map(s, F(_)) == [i \in DOMAIN s |-> F(s[i])]

\* { ...n, ...partial }: the keys of partial override those of n
Spread(n, partial) ==
    [f \in DOMAIN n \cup DOMAIN partial |->
        IF f \in DOMAIN partial THEN partial[f] ELSE n[f]]

-----------------------------------------------------------------------------
(* Records *)

\* a node object: the schema's keys the model follows, and the keys of a flat
\* entity record (parentId, ownershipPercentage) that the spread copies along
Node(id, label, isDraft, eff, parentId, pct, dim) ==
    [id |-> id, label |-> label, isDraft |-> isDraft,
     effectiveOwnership |-> eff, parentId |-> parentId,
     ownershipPercentage |-> pct, dimension |-> dim]

Edge(id, source, target, label, pct, isDraft) ==
    [id |-> id, source |-> source, target |-> target, label |-> label,
     ownershipPercentage |-> pct, isDraft |-> isDraft]

\* the program variables as one record
Store ==
    [nodes |-> nodes, edges |-> edges, selectedNodeId |-> selectedNodeId,
     highlightedPath |-> highlightedPath, sandboxMode |-> sandboxMode,
     originalState |-> originalState]

-----------------------------------------------------------------------------
(* Zod schemas *)

IsString(v) == v \notin {Absent, Undefined, WrongType}
OptString(v) == v # WrongType
OptBoolean(v) == v \in {Absent, Undefined, "true", "false"}
OptNumber(v) == v # BadNum

\* mutation: the label is not required
NodeSchemaWithoutLabel(n) ==
    /\ IsString(n.id)
    /\ OptBoolean(n.isDraft)
    /\ OptNumber(n.effectiveOwnership)

NodeSchema(n) ==
    /\ IsString(n.id)
    /\ IsString(n.label)
    /\ OptBoolean(n.isDraft)
    /\ OptNumber(n.effectiveOwnership)

EdgeSchema(e) ==
    /\ IsString(e.id)
    /\ IsString(e.source)
    /\ IsString(e.target)
    /\ OptString(e.label)
    /\ OptNumber(e.ownershipPercentage)
    /\ OptBoolean(e.isDraft)

DiagramSchema(json) ==
    /\ \A i \in DOMAIN json.nodes : NodeSchema(json.nodes[i])
    /\ \A i \in DOMAIN json.edges : EdgeSchema(json.edges[i])

\* result.data of a successful parse: z.object keeps the declared keys only
ParsedNode(n) ==
    Node(n.id, n.label, n.isDraft, n.effectiveOwnership, Absent, NoNum, NoDim)

ParsedData(json) ==
    [nodes |-> Map(json.nodes, ParsedNode), edges |-> json.edges]

-----------------------------------------------------------------------------
(* JSON.parse(JSON.stringify(x)) *)

\* a key holding undefined is left out of the text, so it is absent in the copy
JsonString(v) == IF v = Undefined THEN Absent ELSE v
JsonNumber(v) == IF v = UndefNum THEN NoNum ELSE v
JsonDim(d) == [width |-> JsonNumber(d.width), height |-> JsonNumber(d.height)]

JsonNode(n) ==
    Node(JsonString(n.id), JsonString(n.label), JsonString(n.isDraft),
         JsonNumber(n.effectiveOwnership), JsonString(n.parentId),
         JsonNumber(n.ownershipPercentage), JsonDim(n.dimension))

JsonEdge(e) ==
    Edge(JsonString(e.id), JsonString(e.source), JsonString(e.target),
         JsonString(e.label), JsonNumber(e.ownershipPercentage),
         JsonString(e.isDraft))

JsonCloneNodes(ns) == Map(ns, JsonNode)
JsonCloneEdges(es) == Map(es, JsonEdge)

-----------------------------------------------------------------------------
(* Filtered views *)

\* activeFilters as constructed: {}
NoFilters == [region |-> Absent, type |-> Absent, pillarTwo |-> Absent]

\* node.region and the like: undefined when the node has no such key
Field(n, f) == IF f \in DOMAIN n THEN n[f] ELSE Absent

\* mutation: a node is kept when any one criterion lets it through
filteredNodesAnyMatch(ns, filters) ==
    SelectSeq(ns, LAMBDA node :
        LET regionMatch == ~Truthy(filters.region) \/ Field(node, "region") = filters.region
            typeMatch == ~Truthy(filters.type) \/ Field(node, "entityType") = filters.type
            pillarMatch == ~Truthy(filters.pillarTwo)
                              \/ Field(node, "pillarTwoStatus") = filters.pillarTwo
        IN regionMatch \/ typeMatch \/ pillarMatch)

filteredNodes(ns, filters) ==
    SelectSeq(ns, LAMBDA node :
        LET regionMatch == ~Truthy(filters.region) \/ Field(node, "region") = filters.region
            typeMatch == ~Truthy(filters.type) \/ Field(node, "entityType") = filters.type
            pillarMatch == ~Truthy(filters.pillarTwo)
                              \/ Field(node, "pillarTwoStatus") = filters.pillarTwo
        IN regionMatch /\ typeMatch /\ pillarMatch)

filteredEdges(ns, es, filters) ==
    LET visible == filteredNodes(ns, filters)
        visibleNodeIds == {visible[i].id : i \in DOMAIN visible}
    IN SelectSeq(es, LAMBDA edge :
            edge.source \in visibleNodeIds /\ edge.target \in visibleNodeIds)

\* what CanvasComponent binds to the graph renderer: the filtered nodes and
\* the edges of the store
canvasNodes == filteredNodes(nodes, activeFilters)
canvasEdges == edges

-----------------------------------------------------------------------------
(* Path tracer *)

RECURSIVE traceLoop(_, _, _, _)
\* the while loop of tracePathToRoot
traceLoop(queue, visited, path, es) ==
    IF queue = <<>> THEN path
    ELSE LET currentId == Head(queue)
             rest == Tail(queue)
         IN IF currentId \in visited
            THEN traceLoop(rest, visited, path, es)
            ELSE LET parentEdges == SelectSeq(es, LAMBDA e : e.target = currentId)
                 IN traceLoop(
                        rest \o [i \in 1..Len(parentEdges) |-> parentEdges[i].source],
                        visited \cup {currentId},
                        path \cup {currentId}
                             \cup {parentEdges[i].id : i \in 1..Len(parentEdges)},
                        es)

RECURSIVE traceRunRevisiting(_, _, _, _, _, _)
\* mutation: a dequeued id is expanded whether or not it was visited
traceRunRevisiting(queue, visited, path, expanded, es, fuel) ==
    IF queue = <<>> THEN [ended |-> TRUE, path |-> path, expanded |-> expanded]
    ELSE IF fuel = 0 THEN [ended |-> FALSE, path |-> path, expanded |-> expanded]
    ELSE LET currentId == Head(queue)
             rest == Tail(queue)
             parentEdges == SelectSeq(es, LAMBDA e : e.target = currentId)
         IN traceRunRevisiting(
                rest \o [i \in 1..Len(parentEdges) |-> parentEdges[i].source],
                visited \cup {currentId},
                path \cup {currentId}
                     \cup {parentEdges[i].id : i \in 1..Len(parentEdges)},
                Append(expanded, currentId),
                es, fuel - 1)

RECURSIVE traceRun(_, _, _, _, _, _)
\* the while loop of tracePathToRoot with a record of its run: the ids whose
\* incoming edges were scanned, in order, and whether the queue ran empty
\* within fuel iterations
traceRun(queue, visited, path, expanded, es, fuel) ==
    IF queue = <<>> THEN [ended |-> TRUE, path |-> path, expanded |-> expanded]
    ELSE IF fuel = 0 THEN [ended |-> FALSE, path |-> path, expanded |-> expanded]
    ELSE LET currentId == Head(queue)
             rest == Tail(queue)
         IN IF currentId \in visited
            THEN traceRun(rest, visited, path, expanded, es, fuel - 1)
            ELSE LET parentEdges == SelectSeq(es, LAMBDA e : e.target = currentId)
                 IN traceRun(
                        rest \o [i \in 1..Len(parentEdges) |-> parentEdges[i].source],
                        visited \cup {currentId},
                        path \cup {currentId}
                             \cup {parentEdges[i].id : i \in 1..Len(parentEdges)},
                        Append(expanded, currentId),
                        es, fuel - 1)

\* mutation: the trace stops at the parents of the start node
tracePathParentsOnly(startNodeId, es) ==
    {startNodeId}
        \cup {es[k].id : k \in {j \in DOMAIN es : es[j].target = startNodeId}}
        \cup {es[k].source : k \in {j \in DOMAIN es : es[j].target = startNodeId}}

tracePathToRoot(startNodeId, es) == traceLoop(<<startNodeId>>, {}, {}, es)

-----------------------------------------------------------------------------
(* Ownership propagator *)

\* effective ownership is kept in units of 1/Scale percent
Scale == 2 ^ (MaxNodes + MaxFlat)
Percent(p) == p * Scale

\* x || 0 on an optional number
OrZero(v) == IF v \in {NoNum, UndefNum} THEN 0 ELSE v

\* nodes.find(n => n.id === id): index of the first match, 0 when none
FindIndex(ns, id) ==
    IF \E i \in DOMAIN ns : ns[i].id = id
    THEN CHOOSE i \in DOMAIN ns :
            /\ ns[i].id = id
            /\ \A j \in DOMAIN ns : ns[j].id = id => i <= j
    ELSE 0

\* a chain of calls longer than the node list repeats a node: the recursion
\* is on a cycle and never returns (the call stack overflows)
StackLimit(ns) == Len(ns) + 1

RECURSIVE propagateOwnership(_, _, _, _, _)
RECURSIVE propagateEach(_, _, _, _, _, _)

RECURSIVE propagateEachParentStake(_, _, _, _, _, _)
\* mutation: the recursion hands down the parent's effective ownership
\* instead of the child's effective stake
propagateEachParentStake(childrenEdges, k, parentEffective, acc, es, depth) ==
    IF ~acc.ok \/ k > Len(childrenEdges) THEN acc
    ELSE LET edge == childrenEdges[k]
             c == FindIndex(acc.nodes, edge.target)
         IN IF c = 0
            THEN propagateEachParentStake(childrenEdges, k + 1, parentEffective,
                                          acc, es, depth)
            ELSE LET directStake == OrZero(edge.ownershipPercentage)
                     effectiveStake == (parentEffective * directStake) \div 100
                     childNode == acc.nodes[c]
                     updated ==
                        [acc.nodes EXCEPT ![c].effectiveOwnership =
                            OrZero(childNode.effectiveOwnership) + effectiveStake]
                 IN propagateEachParentStake(childrenEdges, k + 1, parentEffective,
                        propagateOwnership(childNode.id, parentEffective,
                                           updated, es, depth + 1),
                        es, depth)

\* childrenEdges.forEach(...) from the k-th edge on; acc is the node array
\* as mutated so far, [ok |-> FALSE] once the recursion has not returned
propagateEach(childrenEdges, k, parentEffective, acc, es, depth) ==
    IF ~acc.ok \/ k > Len(childrenEdges) THEN acc
    ELSE LET edge == childrenEdges[k]
             c == FindIndex(acc.nodes, edge.target)
         IN IF c = 0
            THEN propagateEach(childrenEdges, k + 1, parentEffective, acc, es, depth)
            ELSE LET directStake == OrZero(edge.ownershipPercentage)
                     effectiveStake == (parentEffective * directStake) \div 100
                     childNode == acc.nodes[c]
                     updated ==
                        [acc.nodes EXCEPT ![c].effectiveOwnership =
                            OrZero(childNode.effectiveOwnership) + effectiveStake]
                 IN propagateEach(childrenEdges, k + 1, parentEffective,
                        propagateOwnership(childNode.id, effectiveStake,
                                           updated, es, depth + 1),
                        es, depth)

\* mutation: a walk that has gone round a cycle stops and returns
propagateOwnershipGuarded(parentId, parentEffective, ns, es, depth) ==
    IF depth > StackLimit(ns) THEN [ok |-> TRUE, nodes |-> ns]
    ELSE propagateEach(SelectSeq(es, LAMBDA e : e.source = parentId), 1,
                       parentEffective, [ok |-> TRUE, nodes |-> ns], es, depth)

\* propagateOwnership(parentId, parentEffective, nodes, edges)
propagateOwnership(parentId, parentEffective, ns, es, depth) ==
    IF depth > StackLimit(ns) THEN [ok |-> FALSE, nodes |-> ns]
    ELSE propagateEach(SelectSeq(es, LAMBDA e : e.source = parentId), 1,
                       parentEffective, [ok |-> TRUE, nodes |-> ns], es, depth)

RECURSIVE calculateEach(_, _, _)
\* roots.forEach(...) over the node indices listed in roots
calculateEach(roots, acc, es) ==
    IF ~acc.ok \/ roots = <<>> THEN acc
    ELSE LET r == Head(roots)
             marked == [acc.nodes EXCEPT ![r].effectiveOwnership = Percent(100)]
         IN calculateEach(Tail(roots),
                propagateOwnership(acc.nodes[r].id, Percent(100), marked, es, 1),
                es)

\* mutation: an edge from a node to itself does not count as incoming
RootIndicesSelfOwned(ns, es) ==
    SelectSeq([i \in 1..Len(ns) |-> i],
              LAMBDA i : ~\E k \in DOMAIN es :
                            es[k].target = ns[i].id /\ es[k].source # ns[i].id)

\* mutation: every node is taken for a root
RootIndicesEveryNode(ns, es) == [i \in 1..Len(ns) |-> i]

\* indices of the nodes that no edge targets, in node order
RootIndices(ns, es) ==
    SelectSeq([i \in 1..Len(ns) |-> i],
              LAMBDA i : ~\E k \in DOMAIN es : es[k].target = ns[i].id)

calculateEffectiveOwnership(ns, es) ==
    calculateEach(RootIndices(ns, es), [ok |-> TRUE, nodes |-> ns], es)

-----------------------------------------------------------------------------
(* Flat entity list *)

\* `${v}` of a string-valued key
Str(v) == IF v \in {Absent, Undefined} THEN "undefined" ELSE v
\* `${n}%`
PercentLabel(n) ==
    IF n \in {NoNum, UndefNum} THEN "undefined%" ELSE ToString(n) \o "%"

\* the value an object literal gets from ent.ownershipPercentage
ReadNumber(v) == IF v = NoNum THEN UndefNum ELSE v

FlatNode(ent) == Spread(ent, [dimension |-> Dim220])

\* mutation: the edge runs from the entity to its parent
FlatEdgeReversed(ent) ==
    Edge("e-" \o Str(ent.parentId) \o "-" \o Str(ent.id), ent.id, ent.parentId,
         PercentLabel(ent.ownershipPercentage),
         ReadNumber(ent.ownershipPercentage), Absent)

FlatEdge(ent) ==
    Edge("e-" \o Str(ent.parentId) \o "-" \o Str(ent.id), ent.parentId, ent.id,
         PercentLabel(ent.ownershipPercentage),
         ReadNumber(ent.ownershipPercentage), Absent)

FlatNodes(entities) == Map(entities, FlatNode)
FlatEdges(entities) ==
    Map(SelectSeq(entities, LAMBDA ent : Truthy(ent.parentId)), FlatEdge)

-----------------------------------------------------------------------------
(* History variables *)

\* the call just made, and the store it was made on
Called(op, arg) ==
    /\ lastOp' = [op |-> op, arg |-> arg]
    /\ prev' = Store
    /\ steps' = steps + 1

\* phases of a sandbox session: 0 entered, 1 edited, 2 startSandbox called
\* again after an edit, 3 edited after that
MarkEdit ==
    txn' = IF sandboxMode /\ txn.phase \in {0, 2}
           THEN [txn EXCEPT !.phase = txn.phase + 1] ELSE txn

-----------------------------------------------------------------------------
(* Operations of DiagramService *)

loadDiagram(json) ==
    /\ IF ~DiagramSchema(json)
       THEN UNCHANGED <<nodes, edges, selectedNodeId, highlightedPath>>
       ELSE LET data == ParsedData(json)
            IN /\ nodes' = Map(data.nodes, LAMBDA n :
                        Spread(n, [label |-> IF Truthy(n.label) THEN n.label ELSE n.id,
                                   dimension |-> Dim200]))
               /\ edges' = data.edges
               /\ selectedNodeId' = Null
               /\ highlightedPath' = {}
    /\ UNCHANGED <<sandboxMode, originalState, txn>>
    /\ UNCHANGED activeFilters
    /\ Called("loadDiagram", json)

\* mutation: the partial is spread over every node, whatever its id
updateNodeEveryNode(id, partial) ==
    /\ nodes' = Map(nodes, LAMBDA n : Spread(n, partial))
    /\ UNCHANGED <<edges, selectedNodeId, highlightedPath, sandboxMode, originalState>>
    /\ MarkEdit
    /\ UNCHANGED activeFilters
    /\ Called("updateNode", [id |-> id, partial |-> partial])

updateNode(id, partial) ==
    /\ nodes' = Map(nodes, LAMBDA n : IF n.id = id THEN Spread(n, partial) ELSE n)
    /\ UNCHANGED <<edges, selectedNodeId, highlightedPath, sandboxMode, originalState>>
    /\ MarkEdit
    /\ UNCHANGED activeFilters
    /\ Called("updateNode", [id |-> id, partial |-> partial])

selectNode(id) ==
    /\ selectedNodeId' = id
    /\ highlightedPath' = IF Truthy(id) THEN tracePathToRoot(id, edges) ELSE {}
    /\ UNCHANGED <<nodes, edges, sandboxMode, originalState, txn>>
    /\ UNCHANGED activeFilters
    /\ Called("selectNode", id)

\* mutation: no early return when a session is already open
startSandboxUnguarded ==
    /\ originalState' = [present |-> TRUE,
                         nodes |-> JsonCloneNodes(nodes),
                         edges |-> JsonCloneEdges(edges)]
    /\ sandboxMode' = TRUE
    /\ txn' = IF sandboxMode
              THEN (IF txn.phase = 1 THEN [txn EXCEPT !.phase = 2] ELSE txn)
              ELSE [nodes |-> nodes, edges |-> edges, phase |-> 0]
    /\ UNCHANGED <<nodes, edges, selectedNodeId, highlightedPath>>
    /\ UNCHANGED activeFilters
    /\ Called("startSandbox", Null)

startSandbox ==
    /\ IF sandboxMode
       THEN /\ UNCHANGED <<originalState, sandboxMode>>
            /\ txn' = IF txn.phase = 1 THEN [txn EXCEPT !.phase = 2] ELSE txn
       ELSE /\ originalState' = [present |-> TRUE,
                                 nodes |-> JsonCloneNodes(nodes),
                                 edges |-> JsonCloneEdges(edges)]
            /\ sandboxMode' = TRUE
            /\ txn' = [nodes |-> nodes, edges |-> edges, phase |-> 0]
    /\ UNCHANGED <<nodes, edges, selectedNodeId, highlightedPath>>
    /\ UNCHANGED activeFilters
    /\ Called("startSandbox", Null)

\* mutation: the edges keep their draft flags
commitSandboxNodesOnly ==
    /\ IF ~sandboxMode
       THEN UNCHANGED <<nodes, edges, originalState, sandboxMode>>
       ELSE /\ nodes' = Map(nodes, LAMBDA n : Spread(n, [isDraft |-> "false"]))
            /\ edges' = edges
            /\ originalState' = NoSnapshot
            /\ sandboxMode' = FALSE
    /\ UNCHANGED <<selectedNodeId, highlightedPath, txn>>
    /\ UNCHANGED activeFilters
    /\ Called("commitSandbox", Null)

\* mutation: no early return when no session is open
commitSandboxUnguarded ==
    /\ nodes' = Map(nodes, LAMBDA n : Spread(n, [isDraft |-> "false"]))
    /\ edges' = Map(edges, LAMBDA e : Spread(e, [isDraft |-> "false"]))
    /\ originalState' = NoSnapshot
    /\ sandboxMode' = FALSE
    /\ UNCHANGED <<selectedNodeId, highlightedPath, txn>>
    /\ UNCHANGED activeFilters
    /\ Called("commitSandbox", Null)

\* mutation: the commit leaves the snapshot in place
commitSandboxKeepsSnapshot ==
    /\ IF ~sandboxMode
       THEN UNCHANGED <<nodes, edges, originalState, sandboxMode>>
       ELSE /\ nodes' = Map(nodes, LAMBDA n : Spread(n, [isDraft |-> "false"]))
            /\ edges' = Map(edges, LAMBDA e : Spread(e, [isDraft |-> "false"]))
            /\ UNCHANGED originalState
            /\ sandboxMode' = FALSE
    /\ UNCHANGED <<selectedNodeId, highlightedPath, txn>>
    /\ UNCHANGED activeFilters
    /\ Called("commitSandbox", Null)

commitSandbox ==
    /\ IF ~sandboxMode
       THEN UNCHANGED <<nodes, edges, originalState, sandboxMode>>
       ELSE /\ nodes' = Map(nodes, LAMBDA n : Spread(n, [isDraft |-> "false"]))
            /\ edges' = Map(edges, LAMBDA e : Spread(e, [isDraft |-> "false"]))
            /\ originalState' = NoSnapshot
            /\ sandboxMode' = FALSE
    /\ UNCHANGED <<selectedNodeId, highlightedPath, txn>>
    /\ UNCHANGED activeFilters
    /\ Called("commitSandbox", Null)

\* mutation: the edges are not restored
discardSandboxNodesOnly ==
    /\ IF ~sandboxMode \/ ~originalState.present
       THEN UNCHANGED <<nodes, edges, originalState, sandboxMode>>
       ELSE /\ nodes' = originalState.nodes
            /\ edges' = edges
            /\ originalState' = NoSnapshot
            /\ sandboxMode' = FALSE
    /\ UNCHANGED <<selectedNodeId, highlightedPath, txn>>
    /\ UNCHANGED activeFilters
    /\ Called("discardSandbox", Null)

discardSandbox ==
    /\ IF ~sandboxMode \/ ~originalState.present
       THEN UNCHANGED <<nodes, edges, originalState, sandboxMode>>
       ELSE /\ nodes' = originalState.nodes
            /\ edges' = originalState.edges
            /\ originalState' = NoSnapshot
            /\ sandboxMode' = FALSE
    /\ UNCHANGED <<selectedNodeId, highlightedPath, txn>>
    /\ UNCHANGED activeFilters
    /\ Called("discardSandbox", Null)

addNode(node) ==
    /\ nodes' = Append(nodes, Spread(node, [dimension |-> Dim200]))
    /\ UNCHANGED <<edges, selectedNodeId, highlightedPath, sandboxMode, originalState>>
    /\ MarkEdit
    /\ UNCHANGED activeFilters
    /\ Called("addNode", node)

\* mutation: only the edges that arrive at the node are deleted
removeNodeIncomingOnly(id) ==
    /\ nodes' = SelectSeq(nodes, LAMBDA n : n.id # id)
    /\ edges' = SelectSeq(edges, LAMBDA e : e.target # id)
    /\ selectedNodeId' = IF selectedNodeId = id THEN Null ELSE selectedNodeId
    /\ UNCHANGED <<highlightedPath, sandboxMode, originalState>>
    /\ MarkEdit
    /\ UNCHANGED activeFilters
    /\ Called("removeNode", id)

removeNode(id) ==
    /\ nodes' = SelectSeq(nodes, LAMBDA n : n.id # id)
    /\ edges' = SelectSeq(edges, LAMBDA e : e.source # id /\ e.target # id)
    /\ selectedNodeId' = IF selectedNodeId = id THEN Null ELSE selectedNodeId
    /\ UNCHANGED <<highlightedPath, sandboxMode, originalState>>
    /\ MarkEdit
    /\ UNCHANGED activeFilters
    /\ Called("removeNode", id)

\* mutation: a load closes the sandbox session
loadFlatEntityListFresh(entities) ==
    LET ns == FlatNodes(entities)
        es == FlatEdges(entities)
        calc == calculateEffectiveOwnership(ns, es)
    IN /\ IF calc.ok
          THEN nodes' = calc.nodes /\ edges' = es
          ELSE UNCHANGED <<nodes, edges>>
       /\ originalState' = NoSnapshot
       /\ sandboxMode' = FALSE
       /\ UNCHANGED <<selectedNodeId, highlightedPath, txn>>
       /\ UNCHANGED activeFilters
       /\ Called("loadFlatEntityList", entities)

\* the call throws (RangeError) before nodes.set when the propagation does not
\* return; nothing is stored then
loadFlatEntityList(entities) ==
    LET ns == FlatNodes(entities)
        es == FlatEdges(entities)
        calc == calculateEffectiveOwnership(ns, es)
    IN /\ IF calc.ok
          THEN nodes' = calc.nodes /\ edges' = es
          ELSE UNCHANGED <<nodes, edges>>
       /\ UNCHANGED <<selectedNodeId, highlightedPath, sandboxMode, originalState, txn>>
       /\ UNCHANGED activeFilters
       /\ Called("loadFlatEntityList", entities)

\* JSON.parse of the text exportDiagram returns
exportDiagram == [nodes |-> JsonCloneNodes(nodes), edges |-> JsonCloneEdges(edges)]

\* EntityDesignerComponent.setFilter
setFilter(key, value) ==
    /\ activeFilters' = [activeFilters EXCEPT ![key] = value]
    /\ UNCHANGED <<nodes, edges, selectedNodeId, highlightedPath, sandboxMode,
                   originalState, txn>>
    /\ Called("setFilter", [key |-> key, value |-> value])

-----------------------------------------------------------------------------
(* Construction *)

\* loadSampleData: the first entries of the built-in sample
sampleNodes ==
    << Node("G1", "Enterprise Global Holdings Inc.", Absent, NoNum, Absent, 100, NoDim),
       Node("G2", "Enterprise EMEA Hub S.a.r.l.", Absent, NoNum, "G1", 100, NoDim) >>

EmptyStore ==
    [nodes |-> <<>>, edges |-> <<>>, selectedNodeId |-> Null,
     highlightedPath |-> {}, sandboxMode |-> FALSE, originalState |-> NoSnapshot]

Init ==
    /\ nodes = calculateEffectiveOwnership(FlatNodes(sampleNodes),
                                           FlatEdges(sampleNodes)).nodes
    /\ edges = FlatEdges(sampleNodes)
    /\ selectedNodeId = Null
    /\ highlightedPath = {}
    /\ sandboxMode = FALSE
    /\ originalState = NoSnapshot
    /\ activeFilters = NoFilters
    /\ lastOp = [op |-> "constructor", arg |-> Null]
    /\ prev = EmptyStore
    /\ txn = [nodes |-> <<>>, edges |-> <<>>, phase |-> 0]
    /\ steps = 0

-----------------------------------------------------------------------------
(* Inputs *)

\* addDraftNode of the toolbar: a draft entity
DraftNode(id) == Node(id, "New Draft Entity", "true", NoNum, Absent, NoNum, Dim200)
AddInputs == {DraftNode(id) : id \in IDs}

\* updateLabel / updateField of the side drawer
Partials == {[label |-> "Renamed"], [id |-> "G3"]}

PlainNode(id, label) == Node(id, label, Absent, NoNum, Absent, NoNum, NoDim)
PlainEdge(id, s, t, pct) == Edge(id, s, t, Absent, pct, Absent)

DiagramPayloads ==
    { \* a chain with an empty label, a draft node and a draft edge
      [nodes |-> << PlainNode("G1", ""),
                    Node("G2", "Sub", "true", NoNum, Absent, NoNum, NoDim),
                    PlainNode("G3", "Leaf") >>,
       edges |-> << Edge("e1", "G1", "G2", "50%", 50, "true"),
                    PlainEdge("e2", "G2", "G3", 100) >> ],
      \* two nodes with one identifier
      [nodes |-> << PlainNode("G1", "First"), PlainNode("G1", "Second") >>,
       edges |-> <<>>],
      \* a node without an id
      [nodes |-> << PlainNode("G3", "Third"), PlainNode(Absent, "Nameless") >>,
       edges |-> <<>>],
      \* a node without a label
      [nodes |-> << PlainNode("G3", Absent) >>, edges |-> <<>>],
      \* an optional field of the wrong type
      [nodes |-> << Node("G3", "Third", WrongType, NoNum, Absent, NoNum, NoDim) >>,
       edges |-> <<>>],
      \* an edge whose source is not a string
      [nodes |-> << PlainNode("G3", "Third") >>,
       edges |-> << PlainEdge("e2", WrongType, "G3", 100) >>] }

\* flat parent-reference lists: R owning half of X, and a child whose record
\* has no ownershipPercentage
FlatPayloads ==
    { << Node("G1", "R", Absent, NoNum, Absent, 100, NoDim),
         Node("G3", "X", Absent, NoNum, "G1", 50, NoDim) >>,
      << Node("G1", "R", Absent, NoNum, Absent, 100, NoDim),
         Node("G2", "X", Absent, NoNum, "G1", NoNum, NoDim) >> }

-----------------------------------------------------------------------------
(* Specification *)

\* the runs explored are those of at most MaxSteps calls
Budget == steps < MaxSteps

LoadDiagram == Budget /\ \E json \in DiagramPayloads : loadDiagram(json)
LoadFlatEntityList ==
    Budget /\ \E entities \in FlatPayloads : loadFlatEntityList(entities)
AddNode == Budget /\ \E node \in AddInputs : Len(nodes) < MaxNodes /\ addNode(node)
RemoveNode == Budget /\ \E id \in IDs : removeNode(id)
UpdateNode == Budget /\ \E id \in IDs, partial \in Partials : updateNode(id, partial)
SelectNode == Budget /\ \E id \in IDs \cup {Null} : selectNode(id)
StartSandbox == Budget /\ startSandbox
CommitSandbox == Budget /\ commitSandbox
DiscardSandbox == Budget /\ discardSandbox

Next ==
    \/ LoadDiagram
    \/ LoadFlatEntityList
    \/ AddNode
    \/ RemoveNode
    \/ UpdateNode
    \/ SelectNode
    \/ StartSandbox
    \/ CommitSandbox
    \/ DiscardSandbox

Spec == Init /\ [][Next]_vars

-----------------------------------------------------------------------------
(* Specification of the callers that select only what is shown *)

\* selectNode with null (the pane click) or with the id of a stored node (a
\* click on a rendered node)
SelectPresent ==
    /\ Budget
    /\ \/ selectNode(Null)
       \/ \E i \in DOMAIN nodes : selectNode(nodes[i].id)

NextSelect ==
    \/ LoadDiagram
    \/ LoadFlatEntityList
    \/ AddNode
    \/ RemoveNode
    \/ UpdateNode
    \/ SelectPresent
    \/ StartSandbox
    \/ CommitSandbox
    \/ DiscardSandbox

SpecSelect == Init /\ [][NextSelect]_vars

-----------------------------------------------------------------------------
(* Specification of a single flat-list load *)

\* direct stakes of the flat records
Stakes == {50, 100}

FlatId(k) == "G" \o ToString(k)

\* identifier patterns of n records, up to renaming: record i uses one of the
\* identifiers of the records before it or the next unused one
IdPatterns(n) ==
    {f \in [1..n -> 1..n] :
        \A i \in 1..n : f[i] = 1 \/ \E j \in 1..(i - 1) : f[j] >= f[i] - 1}

\* parent references: 0 for no parentId, n + 1 for an id outside the list
ParentPatterns(n) == [1..n -> 0..(n + 1)]
StakePatterns(n) == [1..n -> Stakes]

FlatRecord(i, p, q) ==
    Node(FlatId(i), "Entity " \o FlatId(i), Absent, NoNum,
         IF p = 0 THEN Absent ELSE FlatId(p), q, NoDim)

FlatList(n, ids, ps, qs) == [i \in 1..n |-> FlatRecord(ids[i], ps[i], qs[i])]

LoadOneFlatList ==
    /\ steps = 0
    /\ \E n \in 1..MaxFlat :
         \E ids \in IdPatterns(n), ps \in ParentPatterns(n), qs \in StakePatterns(n) :
            loadFlatEntityList(FlatList(n, ids, ps, qs))

NextFlat == LoadOneFlatList

SpecFlat == Init /\ [][NextFlat]_vars

-----------------------------------------------------------------------------
(* Specification of a single flat-list load, every shape of the references *)

\* what the propagation reaches depends on the ids and the parent references,
\* not on the size of the stakes: all the records of a list carry one stake
UniformStakes(n) == {[i \in 1..n |-> q] : q \in Stakes}

LoadOneShape ==
    /\ steps = 0
    /\ \E n \in 1..MaxShape :
         \E ids \in IdPatterns(n), ps \in ParentPatterns(n), qs \in UniformStakes(n) :
            loadFlatEntityList(FlatList(n, ids, ps, qs))

NextShape == LoadOneShape

SpecShape == Init /\ [][NextShape]_vars

-----------------------------------------------------------------------------
(* Specification of a flat list loaded and then loaded again as stored *)

LoadShortFlatList ==
    /\ steps = 0
    /\ \E n \in 1..MaxReload :
         \E ids \in IdPatterns(n), ps \in ParentPatterns(n), qs \in StakePatterns(n) :
            loadFlatEntityList(FlatList(n, ids, ps, qs))

\* the stored node records, which keep parentId and ownershipPercentage and
\* carry the computed effectiveOwnership, are the next flat list
ReloadStored ==
    /\ steps = 1
    /\ loadFlatEntityList(nodes)

NextReload == LoadShortFlatList \/ ReloadStored

SpecReload == Init /\ [][NextReload]_vars

-----------------------------------------------------------------------------
(* Specification of a graph loaded and one of its nodes selected *)

\* the (source, target) pairs of the edges a graph of n nodes may have
Links(n) == {p \in (1..n) \X (1..n) : p[1] # p[2]}

\* the edge sets of the graphs of n nodes: any links, and at most one
\* self-loop
LinkSets(n) ==
    {ls \cup loop : ls \in SUBSET Links(n),
                    loop \in {{}} \cup {{<<i, i>>} : i \in 1..n}}

TraceNodes(n) == [i \in 1..n |-> PlainNode(FlatId(i), "Entity " \o FlatId(i))]

\* the edges of the pairs in ls, in the order of the pairs
TraceEdges(n, ls) ==
    LET all == [k \in 1..(n * n) |-> <<((k - 1) \div n) + 1, ((k - 1) % n) + 1>>]
        chosen == SelectSeq(all, LAMBDA p : p \in ls)
    IN [k \in 1..Len(chosen) |->
            PlainEdge("e-" \o FlatId(chosen[k][1]) \o "-" \o FlatId(chosen[k][2]),
                      FlatId(chosen[k][1]), FlatId(chosen[k][2]), 100)]

LoadOneGraph ==
    /\ steps = 0
    /\ \E n \in 1..MaxTrace :
         \E ls \in LinkSets(n) :
            loadDiagram([nodes |-> TraceNodes(n), edges |-> TraceEdges(n, ls)])

SelectLoaded ==
    /\ steps = 1
    /\ \E i \in DOMAIN nodes : selectNode(nodes[i].id)

NextTrace == LoadOneGraph \/ SelectLoaded

SpecTrace == Init /\ [][NextTrace]_vars

-----------------------------------------------------------------------------
(* Specification of a flat list loaded and then filtered *)

\* region, entity type and Pillar-Two status of an entity, after the sample
\* data; the last one has none of the three keys
Profiles ==
    { [region |-> "EMEA", entityType |-> "Holding", pillarTwoStatus |-> "In-Scope"],
      [region |-> "EMEA", entityType |-> "Subsidiary", pillarTwoStatus |-> "In-Scope"],
      [region |-> "APAC", entityType |-> "Holding", pillarTwoStatus |-> "Safe-Harbor"],
      [f \in {} |-> Absent] }

\* a chain: every entity but the first is wholly owned by the one before it
ProfiledList(n, profile) ==
    [i \in 1..n |-> Spread(FlatRecord(i, i - 1, 100), profile[i])]

\* what a filter control passes: a value, the empty string or undefined
FilterValues(key) ==
    {Undefined, ""} \cup
        CASE key = "region" -> {"EMEA", "APAC"}
          [] key = "type" -> {"Holding", "Subsidiary"}
          [] key = "pillarTwo" -> {"In-Scope", "Safe-Harbor"}

LoadProfiledList ==
    /\ steps = 0
    /\ \E n \in 1..MaxFiltered :
         \E profile \in [1..n -> Profiles] : loadFlatEntityList(ProfiledList(n, profile))

SetFilter ==
    /\ steps >= 1 /\ steps <= MaxFilterSets
    /\ \E key \in DOMAIN NoFilters :
         \E value \in FilterValues(key) : setFilter(key, value)

NextFilter == LoadProfiledList \/ SetFilter

SpecFilter == Init /\ [][NextFilter]_vars

-----------------------------------------------------------------------------
(* Specification of a sandbox session with loads and filter changes *)

\* the runs explored are those of at most MaxTxn calls
TxnBudget == steps < MaxTxn

TxnLoadDiagram == TxnBudget /\ \E json \in DiagramPayloads : loadDiagram(json)
TxnLoadFlatEntityList ==
    TxnBudget /\ \E entities \in FlatPayloads : loadFlatEntityList(entities)
TxnAddNode ==
    TxnBudget /\ \E node \in AddInputs : Len(nodes) < MaxNodes /\ addNode(node)
TxnRemoveNode == TxnBudget /\ \E id \in IDs : removeNode(id)
TxnUpdateNode ==
    TxnBudget /\ \E id \in IDs, partial \in Partials : updateNode(id, partial)
TxnSelectNode == TxnBudget /\ \E id \in IDs \cup {Null} : selectNode(id)
TxnSetFilter ==
    /\ TxnBudget
    /\ \E key \in DOMAIN NoFilters :
         \E value \in FilterValues(key) : setFilter(key, value)
TxnStartSandbox == TxnBudget /\ startSandbox
TxnCommitSandbox == TxnBudget /\ commitSandbox
TxnDiscardSandbox == TxnBudget /\ discardSandbox

NextTxn ==
    \/ TxnLoadDiagram
    \/ TxnLoadFlatEntityList
    \/ TxnAddNode
    \/ TxnRemoveNode
    \/ TxnUpdateNode
    \/ TxnSelectNode
    \/ TxnSetFilter
    \/ TxnStartSandbox
    \/ TxnCommitSandbox
    \/ TxnDiscardSandbox

SpecTxn == Init /\ [][NextTxn]_vars

-----------------------------------------------------------------------------
(* Specification of an edited graph exported and loaded again *)

\* what the label input of the side drawer may hold: a text or nothing
Labels == {"Renamed", ""}

\* flat lists with a record that is no node: one without a label, one
\* without an id
UncheckedFlatPayloads ==
    { << Node("G1", "R", Absent, NoNum, Absent, 100, NoDim),
         Node("G3", Absent, Absent, NoNum, "G1", 50, NoDim) >>,
      << Node(Absent, "Nameless", Absent, NoNum, Absent, 100, NoDim) >> }

RoundTripBudget == steps < MaxRoundTrip

UpdateLabel ==
    /\ RoundTripBudget
    /\ \E id \in IDs, label \in Labels : updateNode(id, [label |-> label])

AddDraftNode ==
    /\ RoundTripBudget /\ Len(nodes) < MaxNodes
    /\ \E node \in AddInputs : addNode(node)

LoadFlatPayload ==
    /\ RoundTripBudget
    /\ \E entities \in FlatPayloads \cup UncheckedFlatPayloads :
         loadFlatEntityList(entities)

\* the exported file is selected in the JSON viewer
ExportImport == RoundTripBudget /\ loadDiagram(exportDiagram)

NextRoundTrip == UpdateLabel \/ AddDraftNode \/ LoadFlatPayload \/ ExportImport

SpecRoundTrip == Init /\ [][NextRoundTrip]_vars

-----------------------------------------------------------------------------
(* Vocabulary of the properties *)

\* equality by value: the same JSON value
SameNodes(a, b) == JsonCloneNodes(a) = JsonCloneNodes(b)
SameEdges(a, b) == JsonCloneEdges(a) = JsonCloneEdges(b)

NodeIds(ns) == {ns[i].id : i \in DOMAIN ns}
Touches(e, n) == e.source = n \/ e.target = n
HasDraft(s) == \E i \in DOMAIN s : s[i].isDraft = "true"
EdgesResolve(ns, es) ==
    \A k \in DOMAIN es : es[k].source \in NodeIds(ns) /\ es[k].target \in NodeIds(ns)

\* the last call entered, resp. left, a sandbox session
WasSandboxed == prev.sandboxMode
Did(op) == lastOp.op = op

-----------------------------------------------------------------------------
(* Sandbox *)

\* C1: a discardSandbox that ends a sandbox session leaves nodes and edges
\* equal by value to the graph as it was when startSandbox opened the session,
\* whatever addNode, removeNode and updateNode calls were made in between;
\* while the session lasts the snapshot holds that graph and no edit changes it.
SandboxRoundTrip ==
    /\ (Did("discardSandbox") /\ WasSandboxed) =>
            /\ SameNodes(nodes, txn.nodes)
            /\ SameEdges(edges, txn.edges)
    /\ sandboxMode =>
            /\ originalState.present
            /\ SameNodes(originalState.nodes, txn.nodes)
            /\ SameEdges(originalState.edges, txn.edges)
    /\ (lastOp.op \in {"addNode", "removeNode", "updateNode"} /\ WasSandboxed) =>
            originalState = prev.originalState

\* a session with edits that changed nodes and edges has been discarded
SandboxRoundTripWitness ==
    /\ Did("discardSandbox") /\ WasSandboxed
    /\ txn.phase >= 1
    /\ ~SameNodes(prev.nodes, nodes)
    /\ ~SameEdges(prev.edges, edges)
    /\ Len(nodes) > 0

\* C9: startSandbox called while Sandboxed changes nothing, and the discard
\* that follows start, edits, start, edits restores the graph of the first
\* start.
DoubleStartKeepsFirst ==
    /\ (Did("startSandbox") /\ WasSandboxed) => Store = prev
    /\ (Did("discardSandbox") /\ WasSandboxed /\ txn.phase >= 2) =>
            /\ SameNodes(nodes, txn.nodes)
            /\ SameEdges(edges, txn.edges)

\* start, an edit, start again, another edit, then discard
DoubleStartWitness ==
    /\ Did("discardSandbox") /\ WasSandboxed
    /\ txn.phase = 3
    /\ ~SameNodes(prev.nodes, nodes)

\* C4 as claimed: after any call to commitSandbox no node and no edge is a
\* draft.
CommitAlwaysClearsDrafts ==
    Did("commitSandbox") => ~HasDraft(nodes) /\ ~HasDraft(edges)

\* C4 amended: after a commitSandbox called while Sandboxed no node and no
\* edge is a draft.
CommitClearsDrafts ==
    (Did("commitSandbox") /\ WasSandboxed) => ~HasDraft(nodes) /\ ~HasDraft(edges)

\* a session holding a draft node and a draft edge has been committed
CommitClearsDraftsWitness ==
    /\ Did("commitSandbox") /\ WasSandboxed
    /\ HasDraft(prev.nodes) /\ HasDraft(prev.edges)

\* C8: commitSandbox and discardSandbox called while not Sandboxed leave the
\* whole store as it was, draft flags included.
SandboxMisuseNoOp ==
    (lastOp.op \in {"commitSandbox", "discardSandbox"} /\ ~WasSandboxed) =>
        Store = prev

\* commitSandbox was called on a Live store that holds drafts
SandboxMisuseWitness ==
    /\ Did("commitSandbox") /\ ~WasSandboxed
    /\ HasDraft(nodes) /\ HasDraft(edges)

-----------------------------------------------------------------------------
(* Node and edge mutations *)

\* C2: after removeNode(n) no node has id n and no edge touches n, every edge
\* that did not touch n is kept, and a selection of n has become null.
CascadeCompleteness ==
    Did("removeNode") =>
        LET n == lastOp.arg
        IN /\ n \notin NodeIds(nodes)
           /\ \A k \in DOMAIN edges : ~Touches(edges[k], n)
           /\ \A k \in DOMAIN prev.edges :
                ~Touches(prev.edges[k], n) => prev.edges[k] \in Range(edges)
           /\ prev.selectedNodeId = n => selectedNodeId = Null

\* the selected node was removed; one of its edges went, another edge stayed
CascadeWitness ==
    /\ Did("removeNode")
    /\ prev.selectedNodeId = lastOp.arg
    /\ lastOp.arg \in NodeIds(prev.nodes)
    /\ \E k \in DOMAIN prev.edges : Touches(prev.edges[k], lastOp.arg)
    /\ Len(edges) > 0

\* C3 as claimed: addNode, removeNode, updateNode, selectNode and the sandbox
\* operations, called on a graph whose edges all join existing nodes, leave a
\* graph whose edges all join existing nodes.
EdgeIntegrityPreserved ==
    ( /\ lastOp.op \in {"addNode", "removeNode", "updateNode", "selectNode",
                        "startSandbox", "commitSandbox", "discardSandbox"}
      /\ EdgesResolve(prev.nodes, prev.edges)
      /\ EdgesResolve(prev.originalState.nodes, prev.originalState.edges) )
    => EdgesResolve(nodes, edges)

\* C5 as claimed: no two nodes of the graph share an identifier.
NodeIdsUnique ==
    \A i, j \in DOMAIN nodes : nodes[i].id = nodes[j].id => i = j

-----------------------------------------------------------------------------
(* Loads *)

\* what the claim calls a payload that fails validation
LacksString(v) == v \in {Absent, Undefined, WrongType}
FailsValidation(json) ==
    \/ \E i \in DOMAIN json.nodes :
          \/ LacksString(json.nodes[i].id)
          \/ LacksString(json.nodes[i].label)
          \/ json.nodes[i].isDraft = WrongType
          \/ json.nodes[i].effectiveOwnership = BadNum
    \/ \E k \in DOMAIN json.edges :
          \/ LacksString(json.edges[k].id)
          \/ LacksString(json.edges[k].source)
          \/ LacksString(json.edges[k].target)
          \/ json.edges[k].label = WrongType
          \/ json.edges[k].isDraft = WrongType
          \/ json.edges[k].ownershipPercentage = BadNum

\* C6: a loadDiagram whose payload fails validation leaves nodes, edges,
\* selection, highlighted path, sandbox mode and snapshot as they were.
RejectedLoadKeepsStore ==
    (Did("loadDiagram") /\ FailsValidation(lastOp.arg)) => Store = prev

\* an invalid payload that also holds valid nodes was given to a store with a
\* selection, a highlighted path and an open sandbox
RejectedLoadWitness ==
    /\ Did("loadDiagram") /\ FailsValidation(lastOp.arg)
    /\ \E i \in DOMAIN lastOp.arg.nodes : NodeSchema(lastOp.arg.nodes[i])
    /\ selectedNodeId # Null /\ highlightedPath # {} /\ sandboxMode
    /\ NodeIds(lastOp.arg.nodes) # NodeIds(nodes)

\* the propagation over a flat list returns
Returns(entities) ==
    calculateEffectiveOwnership(FlatNodes(entities), FlatEdges(entities)).ok

\* a load that was carried out
Loaded ==
    \/ Did("loadDiagram") /\ ~FailsValidation(lastOp.arg)
    \/ Did("loadFlatEntityList") /\ Returns(lastOp.arg)

\* the identifiers of a node list, in order
IdList(ns) == [i \in DOMAIN ns |-> ns[i].id]

\* C7 as claimed: after a successful load in either form the graph holds the
\* payload's nodes, the selection is null and the highlighted path is empty.
LoadClearsSelection ==
    Loaded =>
        /\ IdList(nodes) = IF Did("loadDiagram") THEN IdList(lastOp.arg.nodes)
                           ELSE IdList(lastOp.arg)
        /\ selectedNodeId = Null
        /\ highlightedPath = {}

-----------------------------------------------------------------------------
(* Ownership *)

IndexOf(entities, id) == CHOOSE i \in DOMAIN entities : entities[i].id = id

RECURSIVE Depth(_, _, _)
\* edges between record i and its root; more than fuel when there is none
Depth(entities, i, fuel) ==
    IF ~Truthy(entities[i].parentId) THEN 0
    ELSE IF fuel = 0 \/ entities[i].parentId \notin NodeIds(entities) THEN Len(entities) + 1
    ELSE 1 + Depth(entities, IndexOf(entities, entities[i].parentId), fuel - 1)

\* distinct ids, every parentId names a record of the list, no cycle
IsForest(entities) ==
    /\ \A i, j \in DOMAIN entities : entities[i].id = entities[j].id => i = j
    /\ \A i \in DOMAIN entities : Depth(entities, i, Len(entities)) <= Len(entities)
    /\ \A i \in DOMAIN entities : entities[i].effectiveOwnership = NoNum

RECURSIVE PathOwnership(_, _)
\* 100 times the product of (stake / 100) over the path from the root down
\* to record i, in units of 1/Scale percent
PathOwnership(entities, i) ==
    IF ~Truthy(entities[i].parentId) THEN Percent(100)
    ELSE (PathOwnership(entities, IndexOf(entities, entities[i].parentId))
            * entities[i].ownershipPercentage) \div 100

\* C10: after loadFlatEntityList of a forest with distinct ids every root has
\* effectiveOwnership 100 and every other node has 100 times the product of
\* (stake/100) along its path from its root; [R 100, X under R at 50] gives
\* R = 100 and X = 50.
OwnershipConservation ==
    (Did("loadFlatEntityList") /\ IsForest(lastOp.arg)) =>
        /\ IdList(nodes) = IdList(lastOp.arg)
        /\ \A i \in DOMAIN nodes :
              nodes[i].effectiveOwnership = PathOwnership(lastOp.arg, i)
        /\ \A i \in DOMAIN nodes :
              ~Truthy(lastOp.arg[i].parentId) =>
                    nodes[i].effectiveOwnership = Percent(100)
        /\ ( /\ Len(lastOp.arg) = 2
             /\ lastOp.arg[2].parentId = lastOp.arg[1].id
             /\ lastOp.arg[2].ownershipPercentage = 50 ) =>
                /\ nodes[1].effectiveOwnership = Percent(100)
                /\ nodes[2].effectiveOwnership = Percent(50)

\* a chain of three records with two 50% stakes: the leaf owns 25
OwnershipConservationWitness ==
    /\ Did("loadFlatEntityList") /\ IsForest(lastOp.arg)
    /\ \E i \in DOMAIN nodes :
          /\ Depth(lastOp.arg, i, Len(lastOp.arg)) = 2
          /\ nodes[i].effectiveOwnership = Percent(25)

-----------------------------------------------------------------------------
(* Joint ownership *)

\* edges of es that arrive at id
Incoming(es, id) == {k \in DOMAIN es : es[k].target = id}

\* no edge closes a walk: its target is neither its source nor an ancestor
\* of its source
Acyclic(es) ==
    \A k \in DOMAIN es : es[k].target \notin tracePathToRoot(es[k].source, es)

\* the nodes without an incoming edge
Roots(ns, es) == {id \in NodeIds(ns) : Incoming(es, id) = {}}

ReachableFromRoot(ns, es, id) == tracePathToRoot(id, es) \cap Roots(ns, es) # {}

RECURSIVE PathSum(_, _, _)
RECURSIVE PathSumFrom(_, _, _, _)
\* the part of PathSum(ns, es, id) that arrives by the edges from the k-th on
PathSumFrom(ns, es, id, k) ==
    IF k > Len(es) THEN 0
    ELSE (IF es[k].target = id
          THEN (PathSum(ns, es, es[k].source) * es[k].ownershipPercentage) \div 100
          ELSE 0)
         + PathSumFrom(ns, es, id, k + 1)

\* sum, over the paths from a root to id, of 100 times the product of
\* (stake / 100) along the path, in units of 1/Scale percent: a root has the
\* empty path alone, and a path to another node is a path to the source of
\* one of its incoming edges followed by that edge
PathSum(ns, es, id) ==
    IF Incoming(es, id) = {}
    THEN IF id \in NodeIds(ns) THEN Percent(100) ELSE 0
    ELSE PathSumFrom(ns, es, id, 1)

\* C11 as claimed: after the propagation over an acyclic graph every node
\* that has an incoming edge and is reachable from a root holds the sum,
\* over the paths from a root to it, of 100 times the product of (stake/100)
\* along the path.
JointOwnershipAdditivity ==
    (Did("loadFlatEntityList") /\ Returns(lastOp.arg) /\ Acyclic(edges)) =>
        \A i \in DOMAIN nodes :
            ( /\ Incoming(edges, nodes[i].id) # {}
              /\ ReachableFromRoot(nodes, edges, nodes[i].id) )
            => nodes[i].effectiveOwnership = PathSum(nodes, edges, nodes[i].id)

-----------------------------------------------------------------------------
(* Path trace *)

RECURSIVE Upstream(_, _)
\* the least set of ids that holds S and the source of every edge whose
\* target it holds
Upstream(S, es) ==
    LET more == S \cup {es[k].source : k \in {j \in DOMAIN es : es[j].target \in S}}
    IN IF more = S THEN S ELSE Upstream(more, es)

\* the ids from which id is reachable along edges
Ancestors(id, es) == Upstream({id}, es) \ {id}

AncestorTrace(id, es) ==
    {id} \cup Ancestors(id, es)
         \cup {es[k].id : k \in {j \in DOMAIN es :
                                    es[j].target \in {id} \cup Ancestors(id, es)}}

\* the graph is a -> b by e1 and b -> c by e2 and nothing else
IsChain(a, b, c) ==
    /\ NodeIds(nodes) = {a, b, c} /\ a # b /\ b # c /\ a # c
    /\ Len(edges) = 2
    /\ \E k, l \in DOMAIN edges :
          /\ edges[k].source = a /\ edges[k].target = b
          /\ edges[l].source = b /\ edges[l].target = c

\* C12: after selectNode(id) of an existing node the highlighted path is id,
\* its ancestors and every edge whose target is id or an ancestor; on the
\* chain A -> B -> C selecting C highlights the three nodes and the two
\* edges, and selecting A highlights A alone.
PathTraceCorrect ==
    (Did("selectNode") /\ lastOp.arg \in NodeIds(nodes)) =>
        /\ highlightedPath = AncestorTrace(lastOp.arg, edges)
        /\ \A a, b, c \in NodeIds(nodes) :
              IsChain(a, b, c) =>
                /\ lastOp.arg = c =>
                      highlightedPath = {a, b, c} \cup {edges[k].id : k \in DOMAIN edges}
                /\ lastOp.arg = a => highlightedPath = {a}

\* the leaf of a chain of three was selected
PathTraceWitness ==
    /\ Did("selectNode")
    /\ \E a, b, c \in NodeIds(nodes) : IsChain(a, b, c) /\ lastOp.arg = c
    /\ Cardinality(highlightedPath) = 5

\* C13 as claimed: in every state the highlighted path is the ancestor trace
\* of the selection over the current edges, and empty when nothing is
\* selected.
HighlightFollowsStore ==
    highlightedPath = IF selectedNodeId = Null THEN {}
                      ELSE AncestorTrace(selectedNodeId, edges)

\* C14 as claimed: selectNode with a non-null id that no node has leaves the
\* selection and the highlighted path as they were.
UnknownSelectNoOp ==
    ( /\ Did("selectNode")
      /\ lastOp.arg # Null
      /\ lastOp.arg \notin NodeIds(prev.nodes) )
    => /\ selectedNodeId = prev.selectedNodeId
       /\ highlightedPath = prev.highlightedPath

-----------------------------------------------------------------------------
(* Frame of updateNode *)

\* node n with the fields of partial in place of its own
Overridden(n, partial, m) ==
    /\ DOMAIN m = DOMAIN n \cup DOMAIN partial
    /\ \A f \in DOMAIN partial : m[f] = partial[f]
    /\ \A f \in DOMAIN n \ DOMAIN partial : m[f] = n[f]

\* C15: updateNode(id, partial) keeps the length and the order of the node
\* list, turns each node with that id into its old fields overridden by the
\* partial, leaves every other node as it was (so the whole list, by value,
\* when no node has the id), and leaves edges, selection, highlighted path,
\* sandbox mode and snapshot as they were.
UpdateNodeFrame ==
    Did("updateNode") =>
        /\ Len(nodes) = Len(prev.nodes)
        /\ \A i \in DOMAIN nodes :
              IF prev.nodes[i].id = lastOp.arg.id
              THEN Overridden(prev.nodes[i], lastOp.arg.partial, nodes[i])
              ELSE nodes[i] = prev.nodes[i]
        /\ lastOp.arg.id \notin NodeIds(prev.nodes) => SameNodes(nodes, prev.nodes)
        /\ edges = prev.edges
        /\ selectedNodeId = prev.selectedNodeId
        /\ highlightedPath = prev.highlightedPath
        /\ sandboxMode = prev.sandboxMode
        /\ originalState = prev.originalState

\* one node of several was updated in a sandbox with a selection and a
\* highlighted path
UpdateNodeFrameWitness ==
    /\ Did("updateNode")
    /\ \E i, j \in DOMAIN nodes :
          /\ prev.nodes[i].id = lastOp.arg.id /\ nodes[i] # prev.nodes[i]
          /\ prev.nodes[j].id # lastOp.arg.id
    /\ edges # <<>> /\ sandboxMode /\ selectedNodeId # Null /\ highlightedPath # {}

-----------------------------------------------------------------------------
(* Filtered views *)

\* the filter keys with the node field each one is compared to
Criteria ==
    { [key |-> "region", field |-> "region"],
      [key |-> "type", field |-> "entityType"],
      [key |-> "pillarTwo", field |-> "pillarTwoStatus"] }

\* a criterion is present when the filter record holds a value for its key:
\* not undefined and not the empty string of a cleared control
Present(c) == activeFilters[c.key] \notin {Absent, Undefined, ""}

Matches(n) ==
    \A c \in Criteria : Present(c) => (c.field \in DOMAIN n /\ n[c.field] = activeFilters[c.key])

\* C16: filteredNodes is the subsequence of the nodes that match every
\* present criterion, filteredEdges is the edges with both endpoints among
\* the ids of filteredNodes, and setFilter leaves nodes and edges alone.
FilteredViews ==
    LET shown == SelectSeq(nodes, Matches)
    IN /\ filteredNodes(nodes, activeFilters) = shown
       /\ filteredEdges(nodes, edges, activeFilters) =
            SelectSeq(edges, LAMBDA e : e.source \in NodeIds(shown)
                                         /\ e.target \in NodeIds(shown))
       /\ Did("setFilter") => nodes = prev.nodes /\ edges = prev.edges

\* two criteria are present, one node passes both, one node passes one of
\* them only, and an edge is hidden with its endpoint
FilteredViewsWitness ==
    /\ Did("setFilter")
    /\ Cardinality({c \in Criteria : Present(c)}) = 2
    /\ Len(filteredNodes(nodes, activeFilters)) \in 1..(Len(nodes) - 1)
    /\ \E i \in DOMAIN nodes :
          /\ ~Matches(nodes[i])
          /\ \E c \in Criteria : Present(c) /\ Field(nodes[i], c.field) = activeFilters[c.key]
    /\ Len(filteredEdges(nodes, edges, activeFilters)) < Len(edges)

-----------------------------------------------------------------------------
(* Export and import *)

\* the payload of the last call is the export of the graph it was given to
WasExport ==
    lastOp.arg = [nodes |-> JsonCloneNodes(prev.nodes),
                  edges |-> JsonCloneEdges(prev.edges)]

LabelList(ns) == [i \in DOMAIN ns |-> JsonString(ns[i].label)]

Relationships(es) ==
    [k \in DOMAIN es |->
        [id |-> es[k].id, source |-> es[k].source, target |-> es[k].target,
         ownershipPercentage |-> JsonNumber(es[k].ownershipPercentage)]]

\* C17 as claimed: loading the export of a graph is accepted and gives the
\* same node identifiers and labels in the same order and the same edges
\* (identifier, source, target, stake).
RoundTripPreserves ==
    (Did("loadDiagram") /\ WasExport) =>
        /\ ~FailsValidation(lastOp.arg)
        /\ IdList(nodes) = IdList(prev.nodes)
        /\ LabelList(nodes) = LabelList(prev.nodes)
        /\ Relationships(edges) = Relationships(prev.edges)

-----------------------------------------------------------------------------
(* Flat-list edge synthesis *)

\* the entities that have a parentId, in input order
Owned(entities) == SelectSeq(entities, LAMBDA ent : Truthy(ent.parentId))

\* one node per entity and one edge per owned entity, in input order, the
\* edge from the parent to the entity with the entity's stake and an
\* identifier made of the pair (parentId, id) alone
Synthesized(entities) ==
    LET owned == Owned(entities)
    IN /\ Len(nodes) = Len(entities)
       /\ \A i \in DOMAIN nodes :
             nodes[i].id = entities[i].id /\ nodes[i].label = entities[i].label
       /\ Len(edges) = Len(owned)
       /\ \A k \in DOMAIN edges :
             /\ edges[k].source = owned[k].parentId
             /\ edges[k].target = owned[k].id
             /\ JsonNumber(edges[k].ownershipPercentage) = owned[k].ownershipPercentage
             /\ edges[k].id = "e-" \o edges[k].source \o "-" \o edges[k].target
       /\ \A k, l \in DOMAIN edges :
             (edges[k].source = edges[l].source /\ edges[k].target = edges[l].target)
                 => edges[k].id = edges[l].id

FlatLoadValidated ==
    ( /\ Did("loadFlatEntityList")
      /\ \E i \in DOMAIN lastOp.arg : ~NodeSchema(lastOp.arg[i]) )
    => nodes = prev.nodes /\ edges = prev.edges

-----------------------------------------------------------------------------
(* Range of effective ownership *)

\* C20 as claimed: after loadFlatEntityList of a list whose stakes all lie
\* in 0..100 every effectiveOwnership that is present lies in 0..100.
EffectiveOwnershipIsPercentage ==
    ( /\ Did("loadFlatEntityList")
      /\ \A i \in DOMAIN lastOp.arg :
            lastOp.arg[i].ownershipPercentage \in {NoNum} \cup 0..100 )
    => \A i \in DOMAIN nodes :
          nodes[i].effectiveOwnership # NoNum =>
              /\ nodes[i].effectiveOwnership >= 0
              /\ nodes[i].effectiveOwnership <= Percent(100)

-----------------------------------------------------------------------------
(* Snapshot and mode *)

\* C21: a snapshot exists exactly while sandbox mode is true; the snapshot
\* field changes to a snapshot only in a startSandbox called while Live, and
\* a snapshot is dropped only by commitSandbox or discardSandbox.
SnapshotModeCoupling ==
    /\ originalState.present <=> sandboxMode
    /\ (originalState.present /\ originalState # prev.originalState)
          => (Did("startSandbox") /\ ~prev.sandboxMode /\ ~prev.originalState.present)
    /\ (prev.originalState.present /\ ~originalState.present)
          => (Did("commitSandbox") \/ Did("discardSandbox"))

\* a session is open and a load has just replaced the graph during it: the
\* snapshot is still there and differs from the graph
SnapshotModeWitness ==
    /\ sandboxMode /\ originalState.present
    /\ Did("loadDiagram") /\ prev.sandboxMode
    /\ ~SameNodes(nodes, originalState.nodes)

-----------------------------------------------------------------------------
(* Termination of the path trace *)

\* every id is queued once as the start or once per edge that leaves it, so
\* the loop body runs at most 1 + Len(es) times when no id is expanded twice
TraceFuel(es) == Len(es) + 1

\* the run of the trace that the last selectNode made
LastTrace == traceRun(<<lastOp.arg>>, {}, {}, <<>>, edges, TraceFuel(edges))

\* the run ended with an empty queue, expanded no id twice and gave the
\* highlighted path
EndedCleanly(run) ==
    /\ run.ended
    /\ \A i, j \in DOMAIN run.expanded : run.expanded[i] = run.expanded[j] => i = j
    /\ run.path = highlightedPath

\* C22: the trace of selectNode ends with an empty frontier, and no id has
\* its incoming edges scanned twice, on graphs with cycles, self-loops and
\* diamonds as on any other.
TraceTerminates ==
    (Did("selectNode") /\ lastOp.arg # Null) => EndedCleanly(LastTrace)

\* the selected node has a self-loop, lies on a cycle through another node
\* and has an ancestor that reaches it along two paths
TraceTerminatesWitness ==
    /\ Did("selectNode") /\ lastOp.arg # Null
    /\ \E k \in DOMAIN edges : edges[k].source = lastOp.arg /\ edges[k].target = lastOp.arg
    /\ \E k, l \in DOMAIN edges :
          /\ edges[k].source = lastOp.arg /\ edges[k].target # lastOp.arg
          /\ edges[l].target = lastOp.arg /\ edges[l].source = edges[k].target
    /\ \E a, b \in NodeIds(nodes) \ {lastOp.arg} :
          /\ a # b
          /\ \E k, l, m \in DOMAIN edges :
                /\ edges[k].source = a /\ edges[k].target = lastOp.arg
                /\ edges[l].source = a /\ edges[l].target = b
                /\ edges[m].source = b /\ edges[m].target = lastOp.arg

-----------------------------------------------------------------------------
(* Cycles of ownership *)

\* id can be reached from itself along one edge or more
OnCycle(id, es) ==
    \E k \in DOMAIN es : es[k].target = id /\ id \in Upstream({es[k].source}, es)

HasCycle(es) == \E k \in DOMAIN es : OnCycle(es[k].target, es)

\* a root reaches an id that lies on a cycle
CycleFromRoot(ns, es) ==
    \E k \in DOMAIN es :
        /\ OnCycle(es[k].target, es)
        /\ Upstream({es[k].target}, es) \cap Roots(ns, es) # {}

\* the last call published nothing
NothingPublished == nodes = prev.nodes /\ edges = prev.edges

\* C23 as claimed: a flat list whose parent references contain a cycle makes
\* the propagation of loadFlatEntityList recurse without end, and the new
\* graph is not published.
CycleNeverCompletes ==
    Did("loadFlatEntityList") =>
        \/ NothingPublished /\ ~Returns(lastOp.arg)
        \/ ~HasCycle(FlatEdges(lastOp.arg))

\* C23, amended: a flat list in which a root reaches a cycle of parent
\* references makes the propagation of loadFlatEntityList recurse without
\* end, and the new graph is not published.
NoCycleGuard ==
    Did("loadFlatEntityList") =>
        \/ NothingPublished /\ ~Returns(lastOp.arg)
        \/ ~CycleFromRoot(FlatNodes(lastOp.arg), FlatEdges(lastOp.arg))

\* a list with a root, a record under it and a second record of that id
\* under the first was given to the store that held the sample graph
NoCycleGuardWitness ==
    /\ Did("loadFlatEntityList")
    /\ CycleFromRoot(FlatNodes(lastOp.arg), FlatEdges(lastOp.arg))
    /\ Len(lastOp.arg) = 3
    /\ IdList(nodes) # IdList(lastOp.arg)

-----------------------------------------------------------------------------
(* Nodes out of reach *)

\* id is no root and no root reaches it
OutOfReach(ns, es, id) == Upstream({id}, es) \cap Roots(ns, es) = {}

NoPreset(entities) ==
    \A i \in DOMAIN entities : entities[i].effectiveOwnership = NoNum

\* C24: after a loadFlatEntityList of records without an effectiveOwnership
\* field, a node that is no root and that no root reaches, as one whose
\* parentId names no entity of the list, has no effectiveOwnership.
UnreachableStayEmpty ==
    Did("loadFlatEntityList") =>
        \/ \A i \in DOMAIN nodes :
              OutOfReach(nodes, edges, nodes[i].id) => nodes[i].effectiveOwnership = NoNum
        \/ ~NoPreset(lastOp.arg)
        \/ ~Returns(lastOp.arg)

\* the list held a root with a child, which got a value, and a record whose
\* parentId names no entity, which got none
UnreachableStayEmptyWitness ==
    /\ Did("loadFlatEntityList") /\ NoPreset(lastOp.arg) /\ IdList(nodes) = IdList(lastOp.arg)
    /\ \E i \in DOMAIN nodes :
          /\ Truthy(nodes[i].parentId) /\ nodes[i].parentId \notin NodeIds(nodes)
          /\ nodes[i].effectiveOwnership = NoNum
    /\ \E i \in DOMAIN nodes :
          /\ Truthy(nodes[i].parentId) /\ nodes[i].parentId \in NodeIds(nodes)
          /\ nodes[i].effectiveOwnership # NoNum

-----------------------------------------------------------------------------
(* Labels of loaded nodes *)

\* the node records the last load was given
Supplied == IF Did("loadDiagram") THEN lastOp.arg.nodes ELSE lastOp.arg

\* C25 as claimed: every node stored by loadDiagram or loadFlatEntityList
\* has a label, which is its identifier when the supplied label is empty or
\* missing.
LabelDefaulting ==
    Loaded =>
        /\ Len(nodes) = Len(Supplied)
        /\ \A i \in DOMAIN nodes :
              /\ Truthy(nodes[i].label)
              /\ ~Truthy(Supplied[i].label) => nodes[i].label = nodes[i].id

-----------------------------------------------------------------------------
(* Flat lists with distinct ids *)

DistinctIds(entities) ==
    \A i, j \in DOMAIN entities : entities[i].id = entities[j].id => i = j

-----------------------------------------------------------------------------
\* C27  Reloading is idempotent for effective ownership: when the node records
\* stored by a loadFlatEntityList are passed to loadFlatEntityList again, every
\* node has the effectiveOwnership the first load gave it.
WasReload ==
    /\ Did("loadFlatEntityList")
    /\ prev.nodes = lastOp.arg

ReloadIdempotent ==
    WasReload =>
        /\ Len(nodes) = Len(prev.nodes)
        /\ \A i \in DOMAIN nodes :
              nodes[i].effectiveOwnership = prev.nodes[i].effectiveOwnership

-----------------------------------------------------------------------------
\* C28  Selection validity: when selectNode is only called with null or with
\* the id of a node of the graph, a selection that is not null is the id of a
\* node of the graph, in every reachable state.
SelectionValid ==
    selectedNodeId # Null => selectedNodeId \in NodeIds(nodes)

-----------------------------------------------------------------------------
\* C29  loadDiagram, loadFlatEntityList, addNode, removeNode, updateNode,
\* selectNode and setFilter leave the sandbox mode and the snapshot as they
\* were.  So a load made while Sandboxed replaces the live graph, a
\* discardSandbox after it puts back the graph of before the session, and a
\* commitSandbox after it keeps the loaded graph.
OutsideTransaction ==
    {"loadDiagram", "loadFlatEntityList", "addNode", "removeNode", "updateNode",
     "selectNode", "setFilter"}

SameButDraft(a, b) ==
    /\ Len(a) = Len(b)
    /\ \A i \in DOMAIN a : [a[i] EXCEPT !.isDraft = "false"] = [b[i] EXCEPT !.isDraft = "false"]

TransactionFrame ==
    /\ lastOp.op \in OutsideTransaction =>
            /\ sandboxMode = prev.sandboxMode
            /\ originalState = prev.originalState
    /\ (Did("loadDiagram") /\ WasSandboxed /\ DiagramSchema(lastOp.arg)) =>
            /\ IdList(nodes) = IdList(lastOp.arg.nodes)
            /\ IdList(edges) = IdList(lastOp.arg.edges)
    /\ (Did("loadFlatEntityList") /\ WasSandboxed /\ Returns(lastOp.arg)) =>
            /\ IdList(nodes) = IdList(lastOp.arg)
            /\ edges = FlatEdges(lastOp.arg)
    /\ (Did("discardSandbox") /\ WasSandboxed) =>
            /\ SameNodes(nodes, txn.nodes)
            /\ SameEdges(edges, txn.edges)
    /\ (Did("commitSandbox") /\ WasSandboxed) =>
            /\ SameButDraft(nodes, prev.nodes)
            /\ SameButDraft(edges, prev.edges)

\* the flat payloads are the only source of the label "R": the session opened
\* on a graph without it, a flat list was loaded during the session, and the
\* discard put the first graph back
Labelled(ns, label) == \E i \in DOMAIN ns : ns[i].label = label

TransactionFrameWitness ==
    /\ Did("discardSandbox") /\ WasSandboxed
    /\ Labelled(prev.nodes, "R")
    /\ ~Labelled(txn.nodes, "R")
    /\ ~Labelled(nodes, "R")
    /\ SameNodes(nodes, txn.nodes)
    /\ activeFilters # NoFilters

-----------------------------------------------------------------------------
\* C30  The graph handed to the renderer is closed under any filter: each edge
\* the canvas exposes has its source and its target among the nodes the canvas
\* exposes.
RenderedGraphClosed ==
    \A k \in DOMAIN canvasEdges :
        /\ canvasEdges[k].source \in NodeIds(canvasNodes)
        /\ canvasEdges[k].target \in NodeIds(canvasNodes)

=============================================================================
